---- MODULE Spec2Model ----
(***************************************************************************)
(* SharePoint webhook receiver: the token endpoint handler                 *)
(* (actualValidateTokenHandler and its registered wrapper), the earlier    *)
(* inline handler of src/functions/httpTriggerWebhook.ts, and the Service  *)
(* Bus publisher AzureServiceBusService.sendMessages.                      *)
(*                                                                         *)
(* One request is a JavaScript async call: it runs synchronously up to an  *)
(* await, and each action below is one such synchronous segment, started   *)
(* by the settling of the promise it was waiting for.  The outcome of an   *)
(* external promise (body read, send, close) is chosen with \E.            *)
(***************************************************************************)
EXTENDS Integers, Sequences, FiniteSets, TLC

\* ---------------------------------------------------------------- bounds
MaxRequests == 2     \* request slots (concurrent invocations)
MaxBatch == 2        \* longest `value` array of a request body
MaxAttempts == 3     \* sendMessages calls of one request the model follows
MaxConstructions == 2  \* direct constructions of a publisher by other callers

Requests == 1..MaxRequests

\* ------------------------------------------------------- values and inputs
\* JavaScript undefined / null where a string or an object is expected.
Undefined == "<undefined>"

\* Variant of Truthy: only a missing value is falsy (a `!== null` test).
Truthy_NotNull(s) == s # Undefined

\* Truthiness of an optional string (query.get result, process.env entry).
Truthy(s) == s # Undefined /\ s # ""

Methods == {"GET", "POST", "DELETE"}

\* request.query.get('validationtoken'): absent, present but empty, or a value
Tokens == {Undefined, "", "tok123", "a b&c=%2F"}

\* process.env.SERVICE_BUS_CONNECTION_STRING / SERVICE_BUS_QUEUE_NAME
ConnectionStrings == {Undefined, "", "Endpoint=sb://ns/"}
QueueNames == {Undefined, "", "queue1"}

\* An element of the payload's `value` array: a notification object (with an
\* optional changeType), a JSON null, or (when `value` is a JSON string, whose
\* iteration yields its characters) a one-character string.
SharePointNotification ==
    [kind : {"object"}, subscriptionId : {"s1", "s2"}, changeType : {Undefined, "added"}]
NullElement == [kind |-> "null", subscriptionId |-> Undefined, changeType |-> Undefined]
CharElement == [kind |-> "char", subscriptionId |-> Undefined, changeType |-> Undefined]
Elements == SharePointNotification \cup {NullElement}

SeqUpTo(S, n) == UNION {[1..k -> S] : k \in 0..n}

\* The request body.  kind is what the text is: an unreadable stream, empty
\* text, text that is not JSON, or the JSON value it decodes to: null, false,
\* the number 0 ("zero"), the empty string ("emptystring"), another number
\* ("number", such as 5 or true, which read alike), a non-empty string
\* ("string"), an array or an object.  For a JSON object valueKind is what
\* its `value` member is, and items what iterating that member yields.
ScalarBody(k) == [kind |-> k, valueKind |-> Undefined, items |-> <<>>]
ObjectBody(vk, its) == [kind |-> "object", valueKind |-> vk, items |-> its]
Bodies ==
    {ScalarBody(k) : k \in {"unreadable", "empty", "notjson", "null", "false",
                            "zero", "emptystring", "number", "string", "array"}}
    \cup {ObjectBody(vk, <<>>) : vk \in {"absent", "null", "number"}}
    \cup {ObjectBody("string", <<CharElement>>)}
    \cup {ObjectBody("array", its) : its \in SeqUpTo(Elements, MaxBatch)}

HttpRequest == [method : Methods, validationtoken : Tokens, body : Bodies]

\* ---------------------------------------------------------------- responses
NoResponse == [status |-> 0, contentType |-> Undefined, body |-> Undefined]
ValidationEcho(token) == [status |-> 200, contentType |-> "text/plain", body |-> token]
Acknowledged ==
    [status |-> 202, contentType |-> Undefined,
     body |-> "Notification acknowledged and queued for processing."]
InvalidJson ==
    [status |-> 400, contentType |-> Undefined,
     body |-> "Invalid JSON payload for notification."]
EmptyOrMalformed ==
    [status |-> 400, contentType |-> Undefined,
     body |-> "Notification payload is empty or malformed."]
GetNotAllowed ==
    [status |-> 405, contentType |-> Undefined,
     body |-> "SharePoint webhooks use POST. Validation: POST with 'validationtoken' in query. Notifications: POST with payload in body."]
MethodNotAllowed(m) ==
    [status |-> 405, contentType |-> Undefined,
     body |-> "Method " \o m \o " not allowed or not handled."]
InternalError ==
    [status |-> 500, contentType |-> Undefined,
     body |-> "An internal error occurred while processing the request."]
InlineAcknowledged ==
    [status |-> 202, contentType |-> Undefined, body |-> "Notification acknowledged"]
InlineMissingBody ==
    [status |-> 400, contentType |-> Undefined,
     body |-> "Notification body is missing or empty."]

\* ------------------------------------------------------------------- state
VARIABLES
    env,       \* process.env: [connectionString, queueName]
    pc,        \* pc[r]: the await request r is suspended at, "idle" or "done"
    entry,     \* entry[r]: which exported handler was invoked
    req,       \* req[r]: the HttpRequest
    injected,  \* injected[r]: a serviceBusServiceOverride was passed
    resp,      \* resp[r]: the HttpResponseInit returned, NoResponse before
    returns,   \* returns[r]: number of responses the handler returned
    escaped,   \* escaped[r]: the handler's promise rejected (unhandled fault)
    rawText,   \* rawText[r]: the request.text() made after a JSON parse error
    svc,       \* svc[r]: the IServiceBusService of the request and its call
    conn,      \* conn[r]: the ServiceBusClient and sender of the request
    ctorCalls  \* every `new AzureServiceBusService(...)` made so far

vars == <<env, pc, entry, req, injected, resp, returns, escaped, rawText, svc, conn,
          ctorCalls>>

NoRequest == [method |-> Undefined, validationtoken |-> Undefined,
              body |-> ScalarBody("empty")]
NoService == [constructed |-> FALSE, calls |-> 0, messages |-> <<>>,
              result |-> "none", error |-> "none"]
NoConnection == [client |-> "none", sender |-> "none", send |-> "none",
                 senderCloses |-> 0, clientCloses |-> 0]

Init ==
    /\ env \in [connectionString : ConnectionStrings, queueName : QueueNames]
    /\ pc = [r \in Requests |-> "idle"]
    /\ entry = [r \in Requests |-> Undefined]
    /\ req = [r \in Requests |-> NoRequest]
    /\ injected = [r \in Requests |-> FALSE]
    /\ resp = [r \in Requests |-> NoResponse]
    /\ returns = [r \in Requests |-> 0]
    /\ escaped = [r \in Requests |-> FALSE]
    /\ rawText = [r \in Requests |-> "none"]
    /\ svc = [r \in Requests |-> NoService]
    /\ conn = [r \in Requests |-> NoConnection]
    /\ ctorCalls = {}


\* ------------------------------------------------ completions of a handler
\* How a synchronous segment of a handler ends: it returns a response, it
\* throws out of the handler, or it suspends at an await.
Return(response) == [kind |-> "return", response |-> response]
Throw == [kind |-> "throw", response |-> NoResponse]
Await == [kind |-> "await", response |-> NoResponse]

\* Variant of OuterCatch: the outer catch rethrows the fault.
OuterCatch_Rethrow == Throw

\* The catch of the handler's outer try: any fault thrown inside the try is
\* logged and turned into the fixed 500 response.
OuterCatch == Return(InternalError)

\* The handler's promise settles: a return fulfils it with the response, a
\* throw rejects it.
Settle(r, completion) ==
    /\ pc' = [pc EXCEPT ![r] = "done"]
    /\ resp' = [resp EXCEPT ![r] = completion.response]
    /\ returns' = [returns EXCEPT ![r] = IF completion.kind = "return" THEN @ + 1 ELSE @]
    /\ escaped' = [escaped EXCEPT ![r] = completion.kind = "throw"]

\* ------------------------------------------------------ JavaScript helpers
\* request.json() rejects: the stream fails, or the text is not JSON (the
\* empty text is not JSON either).
JsonThrows(body) == body.kind \in {"unreadable", "empty", "notjson"}

\* !parsedPayload is false: every decoded JSON value but null, false, 0, "".
PayloadTruthy(body) == body.kind \notin {"null", "false", "zero", "emptystring"}

\* `for (const notification of parsedPayload.value)` does not throw: the
\* payload is an object whose `value` is an array or a string.  For every
\* other payload `value` is undefined, null or a number: a TypeError.
ValueIterable(body) == body.kind = "object" /\ body.valueKind \in {"array", "string"}

\* Variant of AzureServiceBusService: the queue name is not checked.
AzureServiceBusService_NoQueueCheck(connectionString, queueName) ==
    IF ~Truthy(connectionString) THEN "Service Bus connection string is required."
    ELSE "ok"

\* new AzureServiceBusService(connectionString, queueName): "ok", or the
\* message of the Error it throws.
AzureServiceBusService(connectionString, queueName) ==
    IF ~Truthy(connectionString) THEN "Service Bus connection string is required."
    ELSE IF ~Truthy(queueName) THEN "Service Bus queue name is required."
    ELSE "ok"

\* Variant of BuildMessages: each message is put in front of the earlier ones.
RECURSIVE BuildMessages_Prepend(_, _)
BuildMessages_Prepend(items, messagesToSend) ==
    IF items = <<>> THEN [fault |-> FALSE, messages |-> messagesToSend]
    ELSE LET notification == Head(items) IN
         IF notification.kind = "null"
         THEN [fault |-> TRUE, messages |-> messagesToSend]
         ELSE BuildMessages_Prepend(Tail(items),
                  <<[body |-> notification, contentType |-> "application/json"]>>
                      \o messagesToSend)

\* The loop that builds messagesToSend: one message per element, in order;
\* reading notification.subscriptionId of a null element is a TypeError.
RECURSIVE BuildMessages(_, _)
BuildMessages(items, messagesToSend) ==
    IF items = <<>> THEN [fault |-> FALSE, messages |-> messagesToSend]
    ELSE LET notification == Head(items) IN
         IF notification.kind = "null"
         THEN [fault |-> TRUE, messages |-> messagesToSend]
         ELSE BuildMessages(Tail(items),
                  Append(messagesToSend,
                         [body |-> notification, contentType |-> "application/json"]))

\* ------------------------------------------------ actualValidateTokenHandler
\* Variant of Route: the token is looked at before the method, so it is
\* echoed on every method.
Route_EchoOnAnyMethod(request) ==
    IF Truthy(request.validationtoken)
    THEN Return(ValidationEcho(request.validationtoken))
    ELSE IF request.method = "POST" THEN Await
    ELSE IF request.method = "GET" THEN Return(GetNotAllowed)
    ELSE Return(MethodNotAllowed(request.method))

\* Variant of Route: a GET without token is taken as a notification.
Route_IntakeOnGet(request) ==
    IF Truthy(request.validationtoken) /\ request.method \in {"GET", "POST"}
    THEN Return(ValidationEcho(request.validationtoken))
    ELSE IF request.method \in {"GET", "POST"} THEN Await
    ELSE Return(MethodNotAllowed(request.method))

\* Variant of Route: the token is echoed on POST only.
Route_EchoOnPostOnly(request) ==
    IF request.method = "POST"
    THEN IF Truthy(request.validationtoken)
         THEN Return(ValidationEcho(request.validationtoken))
         ELSE Await
    ELSE IF request.method = "GET"
    THEN Return(GetNotAllowed)
    ELSE Return(MethodNotAllowed(request.method))

\* Method and query dispatch, up to the first await or return.
Route(request) ==
    IF request.method = "POST"
    THEN IF Truthy(request.validationtoken)
         THEN Return(ValidationEcho(request.validationtoken))
         ELSE Await
    ELSE IF request.method = "GET"
    THEN IF Truthy(request.validationtoken)
         THEN Return(ValidationEcho(request.validationtoken))
         ELSE Return(GetNotAllowed)
    ELSE Return(MethodNotAllowed(request.method))

\* Variant of Configured: one coordinate is enough.
Configured_Either(e) == Truthy(e.connectionString) \/ Truthy(e.queueName)

\* `if (connectionString && queueName)`: both destination coordinates are set.
Configured(e) == Truthy(e.connectionString) /\ Truthy(e.queueName)

\* Variant of ShouldPublish: the length is not checked.
ShouldPublish_Always(messagesToSend) == TRUE

\* `if (messagesToSend.length > 0)`: an empty batch is not published.
ShouldPublish(messagesToSend) == Len(messagesToSend) > 0

\* The segment after request.json() resolved with parsedPayload: what it
\* does to the publisher (constructs one? calls sendMessages with which
\* messages?) and how it ends when it does not call sendMessages.
NoCall(made, completion) ==
    [made |-> made, constructed |-> made = "ok", call |-> FALSE, messages |-> <<>>,
     completion |-> completion]
\* made is the outcome of `serviceBusServiceOverride || new AzureServiceBusService(
\* connectionString, queueName)`: "none" when no publisher was constructed,
\* else what the constructor did.
Intake(parsedPayload, e, override) ==
    IF ~PayloadTruthy(parsedPayload) THEN NoCall("none", Return(EmptyOrMalformed))
    ELSE IF Configured(e)
    THEN LET made == IF override THEN "none"
                     ELSE AzureServiceBusService(e.connectionString, e.queueName)
         IN  IF made \notin {"none", "ok"} THEN NoCall(made, OuterCatch)
             ELSE IF ~ValueIterable(parsedPayload) THEN NoCall(made, OuterCatch)
             ELSE LET built == BuildMessages(parsedPayload.items, <<>>) IN
                  IF built.fault THEN NoCall(made, OuterCatch)
                  ELSE IF ShouldPublish(built.messages)
                  THEN [made |-> made, constructed |-> made = "ok", call |-> TRUE,
                        messages |-> built.messages, completion |-> Await]
                  ELSE NoCall(made, Return(Acknowledged))
    ELSE NoCall("none", Return(Acknowledged))

\* Variant of AfterPublish: a rejected publish is tried again.
AfterPublish_Retry(result) ==
    IF result = "rejected" THEN Await ELSE Return(Acknowledged)

\* Variant of AfterPublish: the rejection is not caught next to the call and
\* reaches the outer catch.
AfterPublish_Propagate(result) ==
    IF result = "rejected" THEN OuterCatch ELSE Return(Acknowledged)

\* The try/catch around `await sbService.sendMessages(...)`: a rejection is
\* swallowed, and either way the handler goes on to return 202.
AfterPublish(result) == Return(Acknowledged)

\* Variant of SendMessagesOutcome: a close error leaves the finally block.
SendMessagesOutcome_CloseThrows(send, closeFailed) ==
    IF closeFailed THEN [result |-> "rejected", error |-> "closeError"]
    ELSE IF send = "ok" THEN [result |-> "resolved", error |-> "none"]
    ELSE [result |-> "rejected", error |-> "sendError"]

\* The outcome of AzureServiceBusService.sendMessages once its finally block
\* has run: the catch rethrows the send error, and the finally block catches
\* every close error itself.
SendMessagesOutcome(send, closeFailed) ==
    IF send = "ok" THEN [result |-> "resolved", error |-> "none"]
    ELSE [result |-> "rejected", error |-> "sendError"]


\* Variant of AfterRawText: the read of the raw text is not guarded.
AfterRawText_Unguarded(readOk) ==
    IF readOk THEN Return(InvalidJson) ELSE OuterCatch

\* The catch of the JSON parse error: whether or not the raw text could be
\* read for the log, the handler returns 400.
AfterRawText(readOk) == Return(InvalidJson)

\* ----------------------------------------------------------------- actions
\* A segment ends: at an await the request is suspended at `next`, otherwise
\* the handler settles.
Continue(r, completion, next) ==
    IF completion.kind = "await"
    THEN /\ pc' = [pc EXCEPT ![r] = next]
         /\ UNCHANGED <<resp, returns, escaped>>
    ELSE Settle(r, completion)

Invoke(r, name, request, override) ==
    /\ pc[r] = "idle"
    /\ entry' = [entry EXCEPT ![r] = name]
    /\ req' = [req EXCEPT ![r] = request]
    /\ injected' = [injected EXCEPT ![r] = override]
    /\ Continue(r, Route(request), "json")
    /\ UNCHANGED <<env, ctorCalls, rawText, svc, conn>>

\* actualValidateTokenHandler(request, context, serviceBusServiceOverride)
actualValidateTokenHandler(r, request, override) ==
    Invoke(r, "actualValidateTokenHandler", request, override)

\* The registered handler: the core logic without an override.
validateTokenHandler(r, request) ==
    Invoke(r, "validateTokenHandler", request, FALSE)

\* `await request.json()` rejected: the catch logs and awaits request.text().
requestJsonRejected(r) ==
    /\ pc[r] = "json"
    /\ JsonThrows(req[r].body)
    /\ pc' = [pc EXCEPT ![r] = "text"]
    /\ UNCHANGED <<env, ctorCalls, entry, req, injected, resp, returns, escaped, rawText, svc, conn>>

\* `await request.text()` inside the catch settled.  The body has been read
\* once already, so the read may fail for any body; it does for a broken one.
requestTextSettled(r) ==
    /\ pc[r] = "text"
    /\ \E readOk \in (IF req[r].body.kind = "unreadable" THEN {FALSE} ELSE BOOLEAN) :
          /\ rawText' = [rawText EXCEPT ![r] = IF readOk THEN "read" ELSE "failed"]
          /\ Settle(r, AfterRawText(readOk))
    /\ UNCHANGED <<env, ctorCalls, entry, req, injected, svc, conn>>

\* sbService.sendMessages(messagesToSend, context) on the injected override:
\* the call is recorded and the handler awaits its promise.
CallOverride(r, constructed, messages) ==
    /\ svc' = [svc EXCEPT ![r] = [@ EXCEPT !.constructed = constructed,
                                           !.calls = @ + 1,
                                           !.messages = messages]]
    /\ pc' = [pc EXCEPT ![r] = "override"]
    /\ UNCHANGED conn

\* AzureServiceBusService.sendMessages up to its first await: it creates the
\* client and the sender and calls sender.sendMessages.  Both are created
\* before the try block: when `new ServiceBusClient` throws the method
\* rejects with nothing created, and when `createSender` throws it rejects
\* with the client created and no finally block to close it.
sendMessages(r, constructed, messages) ==
    \E created \in {"both", "client", "nothing"} :
        IF created = "both"
        THEN /\ svc' = [svc EXCEPT ![r] = [@ EXCEPT !.constructed = constructed,
                                                    !.calls = @ + 1,
                                                    !.messages = messages]]
             /\ conn' = [conn EXCEPT ![r] = [@ EXCEPT !.client = "open",
                                                      !.sender = "open"]]
             /\ pc' = [pc EXCEPT ![r] = "send"]
        ELSE /\ svc' = [svc EXCEPT ![r] = [@ EXCEPT !.constructed = constructed,
                                                    !.calls = @ + 1,
                                                    !.messages = messages,
                                                    !.result = "rejected",
                                                    !.error = "createError"]]
             /\ conn' = [conn EXCEPT ![r].client = IF created = "client" THEN "open" ELSE @]
             /\ pc' = [pc EXCEPT ![r] = "awaited"]

\* `await request.json()` resolved: the rest of the notification branch up
\* to the await of sendMessages, or to the return.
requestJsonResolved(r) ==
    /\ pc[r] = "json"
    /\ ~JsonThrows(req[r].body)
    /\ LET plan == Intake(req[r].body, env, injected[r]) IN
         IF plan.call
         THEN /\ IF injected[r]
                 THEN CallOverride(r, plan.constructed, plan.messages)
                 ELSE sendMessages(r, plan.constructed, plan.messages)
              /\ UNCHANGED <<resp, returns, escaped>>
         ELSE /\ svc' = [svc EXCEPT ![r].constructed = plan.constructed]
              /\ Settle(r, plan.completion)
              /\ UNCHANGED conn
    /\ ctorCalls' = IF Intake(req[r].body, env, injected[r]).made = "none"
                    THEN ctorCalls
                    ELSE ctorCalls \cup
                         {[caller |-> "handler",
                           connectionString |-> env.connectionString,
                           queueName |-> env.queueName,
                           outcome |-> Intake(req[r].body, env, injected[r]).made]}
    /\ UNCHANGED <<env, entry, req, injected, rawText>>

\* `await sender.sendMessages(messages)` settled; the finally block starts
\* and calls sender.close().
senderSendMessagesSettled(r) ==
    /\ pc[r] = "send"
    /\ \E outcome \in {"ok", "failed"} :
          conn' = [conn EXCEPT ![r] = [@ EXCEPT !.send = outcome,
                                                !.senderCloses = @ + 1]]
    /\ pc' = [pc EXCEPT ![r] = "closeSender"]
    /\ UNCHANGED <<env, ctorCalls, entry, req, injected, resp, returns, escaped, rawText, svc>>

\* sendMessages settles with the outcome its try/catch/finally leaves.
SettleSendMessages(r, closeFailed) ==
    LET outcome == SendMessagesOutcome(conn[r].send, closeFailed) IN
    /\ svc' = [svc EXCEPT ![r] = [@ EXCEPT !.result = outcome.result,
                                           !.error = outcome.error]]
    /\ pc' = [pc EXCEPT ![r] = "awaited"]

\* `await sender.close()` settled: on success sbClient.close() is called, on
\* failure the inner catch logs and the finally block ends.
senderCloseSettled(r) ==
    /\ pc[r] = "closeSender"
    /\ \E closed \in BOOLEAN :
          IF closed
          THEN /\ conn' = [conn EXCEPT ![r] = [@ EXCEPT !.sender = "closed",
                                                        !.clientCloses = @ + 1]]
               /\ pc' = [pc EXCEPT ![r] = "closeClient"]
               /\ UNCHANGED svc
          ELSE /\ SettleSendMessages(r, TRUE)
               /\ UNCHANGED conn
    /\ UNCHANGED <<env, ctorCalls, entry, req, injected, resp, returns, escaped, rawText>>

\* Variant of clientCloseSettled: the client is one object shared by all
\* requests, so closing it closes it for every request that has it open.
clientCloseSettled_SharedClient(r) ==
    /\ pc[r] = "closeClient"
    /\ \E closed \in BOOLEAN :
          /\ conn' = [q \in Requests |->
                        IF closed /\ conn[q].client = "open"
                        THEN [conn[q] EXCEPT !.client = "closed"]
                        ELSE conn[q]]
          /\ SettleSendMessages(r, ~closed)
    /\ UNCHANGED <<env, ctorCalls, entry, req, injected, resp, returns, escaped, rawText>>

\* `await sbClient.close()` settled; the finally block ends either way.
clientCloseSettled(r) ==
    /\ pc[r] = "closeClient"
    /\ \E closed \in BOOLEAN :
          /\ conn' = [conn EXCEPT ![r].client = IF closed THEN "closed" ELSE @]
          /\ SettleSendMessages(r, ~closed)
    /\ UNCHANGED <<env, ctorCalls, entry, req, injected, resp, returns, escaped, rawText>>

\* The promise of the injected override's sendMessages settled.
overrideSendMessagesSettled(r) ==
    /\ pc[r] = "override"
    /\ \E result \in {"resolved", "rejected"} :
          svc' = [svc EXCEPT ![r] = [@ EXCEPT !.result = result,
                                              !.error = IF result = "rejected"
                                                        THEN "overrideError" ELSE "none"]]
    /\ pc' = [pc EXCEPT ![r] = "awaited"]
    /\ UNCHANGED <<env, ctorCalls, entry, req, injected, resp, returns, escaped, rawText, conn>>

\* The handler resumes after `await sbService.sendMessages(...)`.
\* What follows the try/catch decides whether the handler returns or calls
\* sendMessages once more with the same batch.
sendMessagesAwaited(r) ==
    /\ pc[r] = "awaited"
    /\ LET completion == AfterPublish(svc[r].result) IN
         IF completion.kind = "await"
         THEN /\ svc[r].calls < MaxAttempts
              /\ IF injected[r]
                 THEN CallOverride(r, svc[r].constructed, svc[r].messages)
                 ELSE sendMessages(r, svc[r].constructed, svc[r].messages)
              /\ UNCHANGED <<resp, returns, escaped>>
         ELSE /\ Settle(r, completion)
              /\ UNCHANGED <<svc, conn>>
    /\ UNCHANGED <<env, ctorCalls, entry, req, injected, rawText>>

\* --------------------- validateTokenHandler of src/functions (inline version)
InlineRoute(request) ==
    IF request.method = "POST"
    THEN IF Truthy(request.validationtoken)
         THEN Return(ValidationEcho(request.validationtoken))
         ELSE Await
    ELSE IF request.method = "GET"
    THEN IF Truthy(request.validationtoken)
         THEN Return(ValidationEcho(request.validationtoken))
         ELSE Return(GetNotAllowed)
    ELSE Return(MethodNotAllowed(request.method))

validateTokenHandlerInline(r, request) ==
    /\ pc[r] = "idle"
    /\ entry' = [entry EXCEPT ![r] = "validateTokenHandlerInline"]
    /\ req' = [req EXCEPT ![r] = request]
    /\ Continue(r, InlineRoute(request), "inlineText")
    /\ UNCHANGED <<env, ctorCalls, injected, rawText, svc, conn>>

\* `await request.text()` of the inline handler settled: a failed read is
\* caught by the outer catch, an empty text is a 400, any other text a 202.
InlineAfterText(body) ==
    IF body.kind = "unreadable" THEN OuterCatch
    ELSE IF body.kind = "empty" THEN Return(InlineMissingBody)
    ELSE Return(InlineAcknowledged)

inlineTextSettled(r) ==
    /\ pc[r] = "inlineText"
    /\ Settle(r, InlineAfterText(req[r].body))
    /\ UNCHANGED <<env, ctorCalls, entry, req, injected, rawText, svc, conn>>

\* ----------------------------------------------------------- specification
\* One request at a time: only the first request slot is used.
Solo == {1}

Next ==
    \/ \E r \in Solo, request \in HttpRequest, override \in BOOLEAN :
          actualValidateTokenHandler(r, request, override)
    \/ \E r \in Solo, request \in HttpRequest : validateTokenHandler(r, request)
    \/ \E r \in Solo, request \in HttpRequest : validateTokenHandlerInline(r, request)
    \/ \E r \in Solo : requestJsonRejected(r)
    \/ \E r \in Solo : requestTextSettled(r)
    \/ \E r \in Solo : requestJsonResolved(r)
    \/ \E r \in Solo : senderSendMessagesSettled(r)
    \/ \E r \in Solo : senderCloseSettled(r)
    \/ \E r \in Solo : clientCloseSettled(r)
    \/ \E r \in Solo : overrideSendMessagesSettled(r)
    \/ \E r \in Solo : sendMessagesAwaited(r)
    \/ \E r \in Solo : inlineTextSettled(r)

Spec == Init /\ [][Next]_vars

TypeOK ==
    /\ pc \in [Requests -> {"idle", "json", "text", "send", "closeSender", "closeClient",
                            "override", "awaited", "inlineText", "done"}]
    /\ \A r \in Requests :
          /\ resp[r].status \in {0, 200, 202, 400, 405, 500}
          /\ returns[r] \in 0..1
          /\ svc[r].calls \in 0..MaxAttempts
          /\ svc[r].result \in {"none", "resolved", "rejected"}
          /\ conn[r].client \in {"none", "open", "closed"}
          /\ conn[r].sender \in {"none", "open", "closed"}


\* Some continuation of request r can run.
Step(r) ==
    \/ requestJsonRejected(r)
    \/ requestTextSettled(r)
    \/ requestJsonResolved(r)
    \/ senderSendMessagesSettled(r)
    \/ senderCloseSettled(r)
    \/ clientCloseSettled(r)
    \/ overrideSendMessagesSettled(r)
    \/ sendMessagesAwaited(r)
    \/ inlineTextSettled(r)

\* ------------------------------------------------------------------ claims
Done(r) == pc[r] = "done"
\* The request went through actualValidateTokenHandler (directly or through
\* the registered wrapper).
Core(r) == entry[r] \in {"actualValidateTokenHandler", "validateTokenHandler"}
\* A POST without (non-empty) validation token: the notification branch.
Notification(r) == req[r].method = "POST" /\ ~Truthy(req[r].validationtoken)
\* The body is JSON `{"value":[...]}` whose elements are all objects.
IsBatch(body) ==
    /\ body.kind = "object"
    /\ body.valueKind = "array"
    /\ \A i \in 1..Len(body.items) : body.items[i].kind = "object"
BothSet == env.connectionString \notin {Undefined, ""} /\ env.queueName \notin {Undefined, ""}
\* A close was attempted on the sender and failed.
SenderCloseFailed(r) ==
    conn[r].senderCloses = 1 /\ conn[r].sender = "open" /\ pc[r] # "closeSender"

\* C1: a GET or POST carrying a non-empty validationtoken V is answered with
\* status 200, Content-Type text/plain and body V, whatever the body and the
\* destination configuration; the body is not read on the way.
Thm_C1 ==
    \A r \in Requests :
        (entry[r] # Undefined /\ req[r].method \in {"GET", "POST"}
            /\ req[r].validationtoken \notin {Undefined, ""})
        => /\ Done(r)
           /\ resp[r].status = 200
           /\ resp[r].contentType = "text/plain"
           /\ resp[r].body = req[r].validationtoken

Wit_C1 ==
    \E r \in Requests :
        /\ entry[r] = "actualValidateTokenHandler"
        /\ req[r].method = "GET"
        /\ req[r].validationtoken = "a b&c=%2F"
        /\ req[r].body.kind = "notjson"
        /\ ~BothSet
        /\ resp[r].status = 200

\* C2: a POST without token whose body is a non-empty batch, with both
\* coordinates configured, is answered 202 whether sendMessages resolved or
\* rejected; the publish was attempted.
Thm_C2 ==
    \A r \in Requests :
        (Core(r) /\ Done(r) /\ Notification(r) /\ BothSet
            /\ IsBatch(req[r].body) /\ Len(req[r].body.items) >= 1)
        => /\ resp[r].status = 202
           /\ svc[r].calls = 1
           /\ svc[r].result \in {"resolved", "rejected"}

Wit_C2 ==
    \E r \in Requests :
        /\ Core(r) /\ Done(r) /\ Notification(r) /\ BothSet
        /\ IsBatch(req[r].body) /\ Len(req[r].body.items) >= 1
        /\ svc[r].result = "rejected"
        /\ svc[r].error = "sendError"
        /\ resp[r].status = 202

\* C3: a POST without token whose decoded body has no top-level `value`
\* array is answered 400 and the publisher is never invoked.
Cex_C3 ==
    \A r \in Requests :
        (Core(r) /\ Notification(r) /\ ~JsonThrows(req[r].body)
            /\ ~(req[r].body.kind = "object" /\ req[r].body.valueKind = "array"))
        => /\ svc[r].calls = 0
           /\ Done(r) => resp[r].status = 400

\* C4: once the sender and the client exist, both have had close called on
\* them by the time sendMessages settles.
Cex_C4 ==
    \A r \in Requests :
        (svc[r].result # "none" /\ conn[r].client # "none" /\ conn[r].sender # "none")
        => conn[r].senderCloses >= 1 /\ conn[r].clientCloses >= 1

\* C5: AzureServiceBusService.sendMessages resolves exactly when the send
\* succeeded, and after a failed send it rejects with the send error,
\* whatever sender.close and sbClient.close did.
Thm_C5 ==
    \A r \in Requests :
        (svc[r].calls = 1 /\ ~injected[r] /\ svc[r].result # "none")
        => /\ svc[r].result = "resolved" <=> conn[r].send = "ok"
           /\ conn[r].send = "ok" => svc[r].error = "none"
           /\ conn[r].send = "failed" =>
                 svc[r].result = "rejected" /\ svc[r].error = "sendError"

Wit_C5 ==
    \E r \in Requests :
        /\ svc[r].result = "rejected"
        /\ svc[r].error = "sendError"
        /\ conn[r].send = "failed"
        /\ SenderCloseFailed(r)

\* C6: a POST without token whose body cannot be decoded as JSON is answered
\* 400 (invalid JSON) and leaves the publisher untouched, also when the read
\* of the raw text for the log fails.
Thm_C6 ==
    \A r \in Requests :
        (Core(r) /\ Notification(r) /\ JsonThrows(req[r].body))
        => /\ svc[r] = NoService
           /\ conn[r] = NoConnection
           /\ Done(r) =>
                 /\ resp[r].status = 400
                 /\ resp[r].body = "Invalid JSON payload for notification."

Wit_C6 ==
    \E r \in Requests :
        /\ Core(r) /\ Done(r) /\ Notification(r)
        /\ req[r].body.kind = "notjson"
        /\ rawText[r] = "failed"
        /\ resp[r].status = 400

\* C7: a POST without token whose body is the empty batch {"value":[]} is
\* answered 202 and sendMessages is never invoked, configured or not.
Thm_C7 ==
    \A r \in Requests :
        (Core(r) /\ Notification(r) /\ req[r].body.kind = "object"
            /\ req[r].body.valueKind = "array" /\ req[r].body.items = <<>>)
        => /\ svc[r].calls = 0
           /\ conn[r] = NoConnection
           /\ Done(r) => resp[r].status = 202

Wit_C7 ==
    \E r \in Requests :
        /\ Core(r) /\ Done(r) /\ Notification(r) /\ BothSet
        /\ req[r].body.kind = "object" /\ req[r].body.valueKind = "array"
        /\ req[r].body.items = <<>>
        /\ resp[r].status = 202

\* C8: the sequence handed to sendMessages for a batch of n >= 1
\* notifications has n messages; message i has notification i, unchanged, as
\* its body and contentType application/json; a notification without
\* changeType gives a body without changeType.
Thm_C8 ==
    \A r \in Requests :
        (svc[r].calls = 1 /\ req[r].body.valueKind = "array")
        => LET items == req[r].body.items
               messages == svc[r].messages
           IN  /\ Len(items) >= 1
               /\ Len(messages) = Len(items)
               /\ \A i \in 1..Len(items) :
                     /\ messages[i].body = items[i]
                     /\ messages[i].contentType = "application/json"
                     /\ items[i].changeType = Undefined
                           => messages[i].body.changeType = Undefined

Wit_C8 ==
    \E r \in Requests :
        /\ svc[r].calls = 1
        /\ Len(svc[r].messages) = 2
        /\ req[r].body.items[1].subscriptionId = "s2"
        /\ req[r].body.items[1].changeType = Undefined
        /\ req[r].body.items[2].subscriptionId = "s1"
        /\ req[r].body.items[2].changeType = "added"

\* C9: when the connection string or the queue name is absent, a POST
\* without token constructs and invokes no publisher, with or without an
\* injected override, and is answered 202 once its payload was parsed.
Thm_C9 ==
    \A r \in Requests :
        (Core(r) /\ Notification(r) /\ ~BothSet)
        => /\ svc[r] = NoService
           /\ conn[r] = NoConnection
           /\ (Done(r) /\ ~JsonThrows(req[r].body) /\ PayloadTruthy(req[r].body))
                 => resp[r].status = 202

Wit_C9 ==
    \E r \in Requests :
        /\ Core(r) /\ Done(r) /\ Notification(r)
        /\ injected[r]
        /\ env.connectionString = "Endpoint=sb://ns/"
        /\ env.queueName = Undefined
        /\ IsBatch(req[r].body) /\ Len(req[r].body.items) = 2
        /\ resp[r].status = 202

\* C10: no fault escapes the handler; a request that is not finished has
\* returned nothing and can go on; a finished request has returned exactly
\* one response with status 200, 202, 400, 405 or 500; and a fault while
\* transforming the batch is answered 500 with the fixed generic body.
TransformFault(body) ==
    \/ ~(body.kind = "object" /\ body.valueKind \in {"array", "string"})
    \/ \E i \in 1..Len(body.items) : body.items[i].kind = "null"
Thm_C10 ==
    \A r \in Requests :
        /\ ~escaped[r]
        /\ ~Done(r) => returns[r] = 0 /\ resp[r] = NoResponse
        /\ pc[r] \notin {"idle", "done"} => ENABLED Step(r)
        /\ Done(r) => returns[r] = 1 /\ resp[r].status \in {200, 202, 400, 405, 500}
        /\ (Core(r) /\ Done(r) /\ Notification(r) /\ BothSet
               /\ ~JsonThrows(req[r].body) /\ PayloadTruthy(req[r].body)
               /\ TransformFault(req[r].body))
              => /\ resp[r].status = 500
                 /\ resp[r].body = "An internal error occurred while processing the request."

Wit_C10 ==
    \E r \in Requests :
        /\ Core(r) /\ Done(r) /\ Notification(r) /\ BothSet
        /\ req[r].body.kind = "object" /\ req[r].body.valueKind = "array"
        /\ Len(req[r].body.items) = 2 /\ req[r].body.items[2].kind = "null"
        /\ returns[r] = 1
        /\ resp[r].status = 500


\* C11: a request whose method is neither GET nor POST is answered 405, with
\* or without a validationtoken, and so is a GET without token; the handler
\* returns at once, without reading the body or touching the publisher.
Thm_C11 ==
    \A r \in Requests :
        (entry[r] # Undefined
            /\ \/ req[r].method \notin {"GET", "POST"}
               \/ req[r].method = "GET" /\ req[r].validationtoken \in {Undefined, ""})
        => /\ Done(r)
           /\ resp[r].status = 405
           /\ rawText[r] = "none"
           /\ svc[r] = NoService
           /\ conn[r] = NoConnection

Wit_C11 ==
    \E r \in Requests :
        /\ Core(r)
        /\ req[r].method = "DELETE"
        /\ req[r].validationtoken = "tok123"
        /\ BothSet
        /\ IsBatch(req[r].body) /\ Len(req[r].body.items) = 1
        /\ resp[r].status = 405
        /\ resp[r].body = "Method DELETE not allowed or not handled."


\* C12: sendMessages is invoked at most once per request, with one message
\* per element of the batch, and a request whose publish was rejected has
\* made no further call when it returns.
Thm_C12 ==
    \A r \in Requests :
        /\ svc[r].calls <= 1
        /\ svc[r].calls = 1 =>
              /\ Len(svc[r].messages) >= 1
              /\ Len(svc[r].messages) = Len(req[r].body.items)
        /\ svc[r].result = "rejected" => svc[r].calls = 1
        /\ svc[r].result = "rejected" => pc[r] \in {"awaited", "done"}

Wit_C12 ==
    \E r \in Requests :
        /\ Done(r)
        /\ svc[r].calls = 1
        /\ Len(svc[r].messages) = 2
        /\ svc[r].result = "rejected"
        /\ conn[r].send = "failed"
        /\ conn[r].client = "closed"


\* C13: the steps of a request come in the order parse, open, publish,
\* close, respond: the connection is opened only after the body was parsed,
\* the close starts only after the send settled, and a response is returned
\* only after the publish attempt settled and, when a connection was opened,
\* after the send settled and the close was attempted.
Cex_C13 ==
    \A r \in Requests :
        /\ conn[r].client # "none" =>
              svc[r].calls >= 1 /\ pc[r] \notin {"idle", "json", "text", "inlineText"}
        /\ conn[r].send # "none" => conn[r].client # "none"
        /\ conn[r].senderCloses >= 1 => conn[r].send # "none"
        /\ conn[r].clientCloses >= 1 => conn[r].sender = "closed"
        /\ (Done(r) /\ svc[r].calls >= 1) => svc[r].result # "none"
        /\ (Done(r) /\ conn[r].client # "none") =>
              conn[r].send # "none" /\ conn[r].senderCloses >= 1

\* ------------------------------------------------------ concurrent requests
\* Requests that arrive while others are suspended: every request slot is
\* used, and the continuations of different requests interleave freely.
ConcurrentInputs ==
    {[method |-> "GET", validationtoken |-> "tok123", body |-> ScalarBody("empty")],
     [method |-> "POST", validationtoken |-> Undefined, body |-> ScalarBody("notjson")],
     [method |-> "POST", validationtoken |-> Undefined, body |-> ObjectBody("absent", <<>>)],
     [method |-> "DELETE", validationtoken |-> Undefined, body |-> ScalarBody("empty")],
     [method |-> "POST", validationtoken |-> Undefined, body |-> ObjectBody("array", <<>>)],
     [method |-> "POST", validationtoken |-> Undefined,
      body |-> ObjectBody("array", <<NullElement>>)],
     [method |-> "POST", validationtoken |-> "",
      body |-> ObjectBody("array",
                 <<[kind |-> "object", subscriptionId |-> "s1", changeType |-> "added"]>>)]}

ConcurrentInit ==
    /\ Init
    /\ \/ env = [connectionString |-> "Endpoint=sb://ns/", queueName |-> "queue1"]
       \/ env = [connectionString |-> "Endpoint=sb://ns/", queueName |-> Undefined]

ConcurrentNext ==
    \/ \E r \in Requests, request \in ConcurrentInputs, override \in BOOLEAN :
          actualValidateTokenHandler(r, request, override)
    \/ \E r \in Requests : requestJsonRejected(r)
    \/ \E r \in Requests : requestTextSettled(r)
    \/ \E r \in Requests : requestJsonResolved(r)
    \/ \E r \in Requests : senderSendMessagesSettled(r)
    \/ \E r \in Requests : senderCloseSettled(r)
    \/ \E r \in Requests : clientCloseSettled(r)
    \/ \E r \in Requests : overrideSendMessagesSettled(r)
    \/ \E r \in Requests : sendMessagesAwaited(r)

ConcurrentSpec == ConcurrentInit /\ [][ConcurrentNext]_vars

\* The response of handler `name` to `request` when it runs alone under
\* configuration e, given the outcomes of its raw-text read and its publish.
AloneResponseOf(name, request, e, override, readOk, publishResult) ==
    IF name = "validateTokenHandlerInline"
    THEN LET routed == InlineRoute(request) IN
         IF routed.kind = "return" THEN routed.response
         ELSE InlineAfterText(request.body).response
    ELSE LET routed == Route(request) IN
         IF routed.kind = "return" THEN routed.response
         ELSE IF JsonThrows(request.body)
         THEN AfterRawText(readOk).response
         ELSE LET plan == Intake(request.body, e, override) IN
              IF plan.call THEN AfterPublish(publishResult).response
              ELSE plan.completion.response

AloneResponse(r) ==
    AloneResponseOf(entry[r], req[r], env, injected[r], rawText[r] = "read", svc[r].result)

\* C14: requests are independent under every interleaving: a step of one
\* request leaves every other request's response, publisher call and
\* connection as they were; only a request that called the real publisher
\* has a client and a sender, and they are closed by its own steps only; and
\* a finished request has the response it gets when it runs alone.
OwnConnection ==
    \A r \in Requests :
        /\ conn[r].client # "none" => svc[r].calls = 1 /\ ~injected[r]
        /\ conn[r].senderCloses <= 1 /\ conn[r].clientCloses <= 1
        /\ conn[r].sender = "closed" => conn[r].senderCloses = 1
        /\ conn[r].client = "closed" => conn[r].clientCloses = 1
        /\ Done(r) => resp[r] = AloneResponse(r)
OthersUntouched ==
    \A r \in Requests :
        pc'[r] = pc[r] =>
            /\ req'[r] = req[r]
            /\ resp'[r] = resp[r]
            /\ returns'[r] = returns[r]
            /\ escaped'[r] = escaped[r]
            /\ rawText'[r] = rawText[r]
            /\ svc'[r] = svc[r]
            /\ conn'[r] = conn[r]
Thm_C14 == []OwnConnection /\ [][OthersUntouched]_vars

Wit_C14 ==
    \E r, q \in Requests :
        /\ r # q
        /\ Done(r) /\ resp[r].status = 202
        /\ svc[r].result = "rejected" /\ conn[r].send = "failed"
        /\ SenderCloseFailed(r)
        /\ pc[q] = "closeClient"
        /\ conn[q].send = "ok" /\ conn[q].client = "open"


\* ------------------------------------------- constructing a publisher directly
\* `new AzureServiceBusService(connectionString, queueName)` by a caller other
\* than the handler, with any coordinates.
newAzureServiceBusService(connectionString, queueName) ==
    /\ Cardinality({c \in ctorCalls : c.caller = "caller"}) < MaxConstructions
    /\ ctorCalls' = ctorCalls \cup
          {[caller |-> "caller",
            connectionString |-> connectionString,
            queueName |-> queueName,
            outcome |-> AzureServiceBusService(connectionString, queueName)]}
    /\ UNCHANGED <<env, pc, entry, req, injected, resp, returns, escaped, rawText, svc, conn>>

PublisherNext ==
    \/ \E connectionString \in ConnectionStrings, queueName \in QueueNames :
          newAzureServiceBusService(connectionString, queueName)
    \/ \E r \in Solo, request \in ConcurrentInputs, override \in BOOLEAN :
          actualValidateTokenHandler(r, request, override)
    \/ \E r \in Solo : requestJsonRejected(r)
    \/ \E r \in Solo : requestTextSettled(r)
    \/ \E r \in Solo : requestJsonResolved(r)
    \/ \E r \in Solo : senderSendMessagesSettled(r)
    \/ \E r \in Solo : senderCloseSettled(r)
    \/ \E r \in Solo : clientCloseSettled(r)
    \/ \E r \in Solo : overrideSendMessagesSettled(r)
    \/ \E r \in Solo : sendMessagesAwaited(r)

PublisherSpec == Init /\ [][PublisherNext]_vars

\* C15: the constructor succeeds exactly when both coordinates are non-empty
\* and otherwise throws its error, so no instance holds an empty coordinate;
\* and no construction made by the handler throws.
Thm_C15 ==
    /\ \A c \in ctorCalls :
          /\ c.outcome = "ok" <=>
                /\ c.connectionString \notin {Undefined, ""}
                /\ c.queueName \notin {Undefined, ""}
          /\ c.outcome # "ok" =>
                c.outcome \in {"Service Bus connection string is required.",
                               "Service Bus queue name is required."}
          /\ c.caller = "handler" => c.outcome = "ok"
    /\ \A r \in Requests :
          svc[r].constructed =>
              \E c \in ctorCalls : c.caller = "handler" /\ c.outcome = "ok"

Wit_C15 ==
    /\ \E c \in ctorCalls :
          /\ c.caller = "caller"
          /\ c.connectionString = "Endpoint=sb://ns/"
          /\ c.queueName = ""
          /\ c.outcome = "Service Bus queue name is required."
    /\ \E c \in ctorCalls : c.caller = "caller" /\ c.connectionString = Undefined
    /\ \E c \in ctorCalls : c.caller = "handler" /\ c.outcome = "ok"


\* C16: sendMessages is invoked only for a POST without (non-empty) token
\* whose body decoded to a payload, with both coordinates configured and a
\* non-empty batch; a request answered 200, 400 or 405 has constructed no
\* publisher, made no call and opened no connection.
Thm_C16 ==
    \A r \in Requests :
        /\ svc[r].calls >= 1 =>
              /\ Core(r)
              /\ req[r].method = "POST"
              /\ req[r].validationtoken \in {Undefined, ""}
              /\ req[r].body.kind \notin {"unreadable", "empty", "notjson",
                                           "null", "false", "zero", "emptystring"}
              /\ BothSet
              /\ Len(req[r].body.items) >= 1
        /\ (Done(r) /\ resp[r].status \in {200, 400, 405}) =>
              /\ svc[r] = NoService
              /\ conn[r] = NoConnection
              /\ ctorCalls = {}

Wit_C16 ==
    \E r \in Requests :
        /\ Core(r) /\ Done(r) /\ ~injected[r]
        /\ BothSet
        /\ req[r].method = "POST"
        /\ req[r].body.kind = "null"
        /\ resp[r].status = 400
        /\ svc[r] = NoService

\* C17: an empty validationtoken is treated like an absent one: a GET is
\* answered 405, a POST is answered as the same POST without the parameter
\* is (after the same body read and publish), and no response has status 200
\* with an empty body.
Thm_C17 ==
    \A r \in Requests :
        /\ (entry[r] # Undefined /\ req[r].validationtoken = "") =>
              /\ req[r].method = "GET" => Done(r) /\ resp[r].status = 405
              /\ (req[r].method = "POST" /\ Done(r)) =>
                    /\ resp[r].status \in {202, 400, 500}
                    /\ resp[r] = AloneResponseOf(entry[r],
                                     [req[r] EXCEPT !.validationtoken = Undefined],
                                     env, injected[r], rawText[r] = "read", svc[r].result)
        /\ (Done(r) /\ resp[r].status = 200) => resp[r].body \notin {"", Undefined}

Wit_C17 ==
    \E r \in Requests :
        /\ Core(r) /\ Done(r)
        /\ req[r].method = "POST"
        /\ req[r].validationtoken = ""
        /\ svc[r].calls = 1
        /\ svc[r].result = "resolved"
        /\ resp[r].status = 202

====
